---- MODULE Spec2Model ----
(***************************************************************************)
(* Soft actor-critic agent of mlpack (methods/reinforcement_learning/      *)
(* sac_impl.hpp): the episode loop, action selection, the twin-critic and  *)
(* actor update, and the soft update of the target critics.                *)
(*                                                                         *)
(* Real numbers are fixed-point integers in units of 1/SCALE.  Parameter   *)
(* blocks are column vectors written as sequences.  The networks, the      *)
(* replay store, the loss and the environment are template parameters of   *)
(* SAC; they are modelled by the smallest instances of their interfaces:   *)
(* linear networks, a store that keeps every transition, mean squared      *)
(* error, and an environment with three states.                            *)
(***************************************************************************)
EXTENDS Integers, Sequences, FiniteSets, TLC

\* ---------------------------------------------------------------- bounds
\* Lifetime environment steps explored by the model checker.
MaxTotalSteps == 2
\* The non-zero step limit, exploration threshold and sync interval tried.
MaxStepLimit == 2
MaxExploration == 2
MaxSync == 2

\* ------------------------------------------------------------ fixed point
SCALE == 1000

Mul(a, b) == (a * b) \div SCALE

Min(a, b) == IF a < b THEN a ELSE b

\* SoftUpdate(0.005) at the end of Update().
RHO == 5

\* arma::randu(...) * 0.1 : samples of U(0, 0.1).
NoiseScale == 100
NoiseDraws == {0, NoiseScale}

\* arma::clamp(noise, -0.25, 0.25)
ClampLo == -250
ClampHi == 250
Clamp(x, lo, hi) == IF x < lo THEN lo ELSE IF x > hi THEN hi ELSE x

\* ------------------------------------------------------ training config
StepLimits == {0, MaxStepLimit}
ExplorationChoices == {0, MaxExploration}
SyncIntervals == {1, MaxSync}
Discounts == {SCALE \div 2}
StepSizes == {SCALE \div 10}

Configs ==
  [StepLimit : StepLimits, ExplorationSteps : ExplorationChoices,
   TargetNetworkSyncInterval : SyncIntervals, Discount : Discounts,
   StepSize : StepSizes]

\* ------------------------------------------------------------ environment
\* Three states; state 2 is terminal.
States == {0, 1, 2}
TerminalState == 2
IsTerminal(s) == s = TerminalState
Encode(s) == s * SCALE

\* Reward of one environment step: depends on the state stepped from, the
\* action taken and the state reached.
Reward(s, a, ns) ==
  (a - Encode(s)) + (IF ns = s THEN 0 ELSE SCALE \div 2)

\* ----------------------------------------------------------------- networks
\* Policy network with parameter block <<w, b>>: pi(s) = w * s + b.
PolicyPredict(p, s) == Mul(p[1], Encode(s)) + p[2]

\* Parameter gradient of the policy for one state and output error g.
PolicyBackward(s, g) == <<Mul(g, Encode(s)), g>>

\* arma::join_vert(action, state): one column of a critic's input, the action
\* rows first and the encoded state below them.
JoinVert(a, s) == <<a, Encode(s)>>

\* Critic network with parameter block <<wa, ws>> on the input
\* join_vert(action, state): Q(a, s) = wa * a + ws * s.
QPredict(p, a, s) == Mul(p[1], JoinVert(a, s)[1]) + Mul(p[2], JoinVert(a, s)[2])

\* Parameter gradient of a critic for one input column and output error g;
\* the rows are ordered like the rows of the input.
QBackward(a, s, g) == [i \in 1..2 |-> Mul(g, JoinVert(a, s)[i])]

VecAdd(u, v) == [i \in DOMAIN u |-> u[i] + v[i]]
VecSub(u, v) == [i \in DOMAIN u |-> u[i] - v[i]]
VecScale(c, v) == [i \in DOMAIN v |-> Mul(c, v[i])]
Zero2 == <<0, 0>>

RECURSIVE SumVec(_, _)
SumVec(f, n) == IF n = 0 THEN Zero2 ELSE VecAdd(SumVec(f, n - 1), f[n])

RECURSIVE SumSeq(_, _)
SumSeq(f, n) == IF n = 0 THEN 0 ELSE SumSeq(f, n - 1) + f[n]

\* lossFunction.Backward(prediction, target, out): mean squared error.
LossBackward(pred, target) ==
  [i \in DOMAIN pred |-> (2 * (pred[i] - target[i])) \div Len(pred)]

\* ------------------------------------------------------------------ updater
\* UpdaterType::Policy is stateful: a momentum buffer of the shape of the
\* parameter block it was constructed for.
Momentum == SCALE \div 2
UpdaterStep(buf, grad) == VecAdd(VecScale(Momentum, buf), grad)
UpdaterApply(params, stepSize, buf) == VecSub(params, VecScale(stepSize, buf))

\* --------------------------------------------------------------- replay
\* Number of transitions returned by one replayMethod.Sample().
BatchSize == 2

\* -------------------------------------------------------------------- state
VARIABLES
  config,                    \* TrainingConfig& config
  parameters,                \* parameters[n]: the block n.Parameters()
  qNetworkUpdatePolicy,      \* state of the critics' updater
  policyNetworkUpdatePolicy, \* state of the policy's updater
  replayMethod,              \* stored transitions, oldest first
  state, action,             \* current state and action of the agent
  totalSteps, deterministic,
  pc,                        \* position of the control flow
  steps, totalReturn,        \* locals of Episode()
  nextState, reward,
  retval,                    \* value returned by the last Episode()
  rhoArg,                    \* argument of the last SoftUpdate(rho) call
  batch, nextQ,              \* locals of Update()
  gradQ1Loss, gradQ2Loss,
  qUpdaterWriter,            \* network whose step last wrote the critics' updater
  updateCalls,               \* updateCalls[t]: Update() calls at lifetime step t
  softUpdateCalls,           \* softUpdateCalls[t]: SoftUpdate() calls at step t
  stepMode                   \* stepMode[t]: value of deterministic at step t

vars ==
  <<config, rhoArg, parameters, qNetworkUpdatePolicy, policyNetworkUpdatePolicy,
    replayMethod, state, action, totalSteps,
    deterministic, pc, steps, totalReturn, nextState, reward, retval, batch,
    nextQ, gradQ1Loss, gradQ2Loss, qUpdaterWriter, updateCalls,
    softUpdateCalls, stepMode>>

netVars == <<parameters>>
updaterVars == <<qNetworkUpdatePolicy, policyNetworkUpdatePolicy, qUpdaterWriter>>
episodeVars == <<steps, totalReturn, nextState, reward, retval>>
updateVars == <<batch, nextQ, gradQ1Loss, gradQ2Loss>>
logVars == <<updateCalls, softUpdateCalls, stepMode>>

\* Parameters the caller may pass in for critic 1 and the policy, and the
\* values ResetParameters() may draw for critic 2.
InitQ1 == {<<SCALE, SCALE \div 2>>}
ResetQ2 == {<<SCALE \div 2, SCALE>>}
InitPolicy == {<<SCALE \div 2, SCALE \div 4>>}

\* The five networks owned by the agent.
Networks ==
  {"learningQ1Network", "learningQ2Network", "targetQ1Network",
   "targetQ2Network", "policyNetwork"}

\* Target 2 copied from critic 2 before its parameters were reset.
ConstructTargetBeforeReset(q1, q2, p) ==
  [n \in Networks |->
     CASE n = "learningQ1Network" -> q1
       [] n = "learningQ2Network" -> q2
       [] n = "targetQ1Network" -> q1
       [] n = "targetQ2Network" -> q1
       [] n = "policyNetwork" -> p]

\* SAC::SAC: critic 2 is a copy of critic 1 with reset parameters; each
\* target is a copy of its learning critic.
Construct(q1, q2, p) ==
  [n \in Networks |->
     CASE n = "learningQ1Network" -> q1
       [] n = "learningQ2Network" -> q2
       [] n = "targetQ1Network" -> q1
       [] n = "targetQ2Network" -> q2
       [] n = "policyNetwork" -> p]

\* SAC::SAC
Init ==
  /\ config \in Configs
  /\ \E q1 \in InitQ1, q2 \in ResetQ2, p \in InitPolicy :
       parameters = Construct(q1, q2, p)
  /\ qNetworkUpdatePolicy = Zero2
  /\ policyNetworkUpdatePolicy = Zero2
  /\ replayMethod = <<>>
  /\ state = 0
  /\ action = 0
  /\ totalSteps = 0
  /\ deterministic = FALSE
  /\ pc = "idle"
  /\ steps = 0
  /\ totalReturn = 0
  /\ nextState = 0
  /\ reward = 0
  /\ retval = 0
  /\ rhoArg = 0
  /\ batch = <<>>
  /\ nextQ = <<>>
  /\ gradQ1Loss = <<>>
  /\ gradQ2Loss = <<>>
  /\ qUpdaterWriter = "none"
  /\ updateCalls = <<>>
  /\ softUpdateCalls = <<>>
  /\ stepMode = <<>>

\* The caller sets the mode between episodes (Deterministic() accessor).
SetDeterministic ==
  /\ pc = "idle"
  /\ deterministic' = ~deterministic
  /\ UNCHANGED <<config, rhoArg, netVars, updaterVars, replayMethod, state, action,
                 totalSteps, pc, episodeVars, updateVars, logVars>>

\* Episode(): state = environment.InitialSample(); steps = 0; totalReturn = 0.
EpisodeBegin ==
  /\ pc = "idle"
  /\ \E s0 \in States : state' = s0
  /\ steps' = 0
  /\ totalReturn' = 0
  /\ pc' = "loop"
  /\ UNCHANGED <<config, rhoArg, netVars, updaterVars, replayMethod, action,
                 totalSteps, deterministic, nextState, reward, retval,
                 updateVars, logVars>>

\* The loop test with the limit reached one step early.
LoopExitEarly ==
  \/ IsTerminal(state)
  \/ (config.StepLimit # 0 /\ steps + 1 >= config.StepLimit)

\* The loop test without the step limit.
LoopExitNoLimit == IsTerminal(state)

\* The loop ends on a terminal state or when the step limit is reached.
LoopExit ==
  \/ IsTerminal(state)
  \/ (config.StepLimit # 0 /\ steps >= config.StepLimit)

\* Episode(): return totalReturn.
EpisodeReturn ==
  /\ pc = "loop"
  /\ LoopExit
  /\ retval' = totalReturn
  /\ pc' = "idle"
  /\ UNCHANGED <<config, rhoArg, netVars, updaterVars, replayMethod, state, action,
                 totalSteps, deterministic, steps, totalReturn, nextState,
                 reward, updateVars, logVars>>

\* Noise centred on zero.
ExplorationNoiseCentred(draw) ==
  Clamp(draw - NoiseScale \div 2, ClampLo, ClampHi)

\* The noise added to the policy output when not deterministic.
ExplorationNoise(draw) == Clamp(draw, ClampLo, ClampHi)

\* The noise added in either mode.
SelectedActionAlwaysNoisy(det, outputAction, draw) ==
  outputAction + ExplorationNoise(draw)

\* The action written to action.action[0]: the policy output, plus the noise
\* unless deterministic.
SelectedAction(det, outputAction, draw) ==
  IF det THEN outputAction ELSE outputAction + ExplorationNoise(draw)

\* SelectAction()
SelectAction ==
  /\ pc = "loop"
  /\ ~LoopExit
  /\ totalSteps < MaxTotalSteps
  /\ \E draw \in NoiseDraws :
       action' = SelectedAction(deterministic,
                   PolicyPredict(parameters["policyNetwork"], state), draw)
  /\ pc' = "sample"
  /\ UNCHANGED <<config, rhoArg, netVars, updaterVars, replayMethod, state,
                 totalSteps, deterministic, episodeVars, updateVars, logVars>>

\* The transition is not stored before the learning gate.
AfterEnvSampleGateFirst == "advance"

\* replayMethod.Store() is the statement after the counters are incremented.
AfterEnvSample == "store"

\* A counter that skips the steps taken in deterministic mode.
NextTotalStepsLearningOnly(t, det) == IF det THEN t ELSE t + 1

\* totalSteps++
NextTotalSteps(t, det) == t + 1

\* reward = environment.Sample(state, action, nextState);
\* totalReturn += reward; steps++; totalSteps++.
EnvSample ==
  /\ pc = "sample"
  /\ \E ns \in States :
       /\ nextState' = ns
       /\ reward' = Reward(state, action, ns)
       /\ totalReturn' = totalReturn + Reward(state, action, ns)
  /\ steps' = steps + 1
  /\ totalSteps' = NextTotalSteps(totalSteps, deterministic)
  /\ updateCalls' = Append(updateCalls, 0)
  /\ softUpdateCalls' = Append(softUpdateCalls, 0)
  /\ stepMode' = Append(stepMode, deterministic)
  /\ pc' = AfterEnvSample
  /\ UNCHANGED <<config, rhoArg, netVars, updaterVars, replayMethod, state, action,
                 deterministic, retval, updateVars>>

\* The tuple handed to replayMethod.Store().
Transition(s, a, r, ns, t, d) ==
  [state |-> s, action |-> a, reward |-> r, nextState |-> ns,
   isTerminal |-> t, discount |-> d]

\* The tuple built after the current state was already replaced.
StoredTransitionAfterAdvance ==
  Transition(nextState, action, reward, nextState, IsTerminal(nextState),
             config.Discount)

\* The arguments of replayMethod.Store(state, action, reward, nextState,
\*     environment.IsTerminal(nextState), config.Discount()).
StoredTransition ==
  Transition(state, action, reward, nextState, IsTerminal(nextState),
             config.Discount)

\* replayMethod.Store(...)
Store ==
  /\ pc = "store"
  /\ replayMethod' = Append(replayMethod, StoredTransition)
  /\ pc' = "advance"
  /\ UNCHANGED <<config, rhoArg, netVars, updaterVars, state, action, totalSteps,
                 deterministic, episodeVars, updateVars, logVars>>

\* The gate with an off-by-one threshold.
SkipLearningOffByOne == deterministic \/ totalSteps <= config.ExplorationSteps

\* The gate without the mode test.
SkipLearningIgnoresMode == totalSteps < config.ExplorationSteps

\* The learning gate: `continue` when it holds.
SkipLearning == deterministic \/ totalSteps < config.ExplorationSteps

\* state = nextState; then the learning gate.
Advance ==
  /\ pc = "advance"
  /\ state' = nextState
  /\ pc' = IF SkipLearning THEN "loop" ELSE "update"
  /\ UNCHANGED <<config, rhoArg, netVars, updaterVars, replayMethod, action,
                 totalSteps, deterministic, episodeVars, updateVars, logVars>>

\* ------------------------------------------------------------------ Update
\* replayMethod.Sample(): BatchSize stored transitions, drawn with repetition.
\* Every sum over a batch is independent of the order of its columns, so the
\* draws are listed oldest first.
Batches(store) ==
  {[k \in 1..BatchSize |-> store[idx[k]]] :
     idx \in {f \in [1..BatchSize -> 1..Len(store)] :
                \A k \in 1..(BatchSize - 1) : f[k] <= f[k + 1]}}

\* The target with the mean of the two target critics.
BootstrapTargetMean(r, terminal, tq1, tq2, gamma) ==
  r + Mul(gamma * (1 - (IF terminal THEN 1 ELSE 0)), (tq1 + tq2) \div 2)

\* One entry of nextQ:
\* sampledRewards + config.Discount() * (1 - isTerminal) % arma::min(Q1, Q2).
BootstrapTarget(r, terminal, tq1, tq2, gamma) ==
  r + Mul(gamma * (1 - (IF terminal THEN 1 ELSE 0)), Min(tq1, tq2))

\* nextQ of a batch: the target critics are evaluated on
\* join_vert(policy prediction for the next state, next state).
NextQ(p, b, gamma) ==
  [i \in DOMAIN b |->
     LET a1 == PolicyPredict(p["policyNetwork"], b[i].nextState)
     IN BootstrapTarget(b[i].reward, b[i].isTerminal,
          QPredict(p["targetQ1Network"], a1, b[i].nextState),
          QPredict(p["targetQ2Network"], a1, b[i].nextState), gamma)]

\* A learning critic's Forward on join_vert(sampled action, sampled state).
LearningForward(block, b) ==
  [i \in DOMAIN b |-> QPredict(block, b[i].action, b[i].state)]

\* Update() with the target synchronisation ahead of the optimizer steps.
NextInUpdateSyncFirst(p) ==
  CASE p = "update" -> "sync"
    [] p = "sync" -> "critic1"
    [] p = "critic1" -> "critic2"
    [] p = "critic2" -> "actor"
    [] p = "actor" -> "loop"

\* The order of the parts of Update(): sampling and targets, critic 1,
\* critic 2, the policy, the target synchronisation, then back to the loop.
NextInUpdate(p) ==
  CASE p = "update" -> "critic1"
    [] p = "critic1" -> "critic2"
    [] p = "critic2" -> "actor"
    [] p = "actor" -> "sync"
    [] p = "sync" -> "loop"

\* Update(), up to the loss gradients of both critics.
UpdateSample ==
  /\ pc = "update"
  /\ \E b \in Batches(replayMethod) :
       /\ batch' = b
       /\ nextQ' = NextQ(parameters, b, config.Discount)
       /\ gradQ1Loss' =
            LossBackward(LearningForward(parameters["learningQ1Network"], b),
                         NextQ(parameters, b, config.Discount))
       /\ gradQ2Loss' =
            LossBackward(LearningForward(parameters["learningQ2Network"], b),
                         NextQ(parameters, b, config.Discount))
  /\ updateCalls' = [updateCalls EXCEPT ![totalSteps] = @ + 1]
  /\ pc' = NextInUpdate(pc)
  /\ UNCHANGED <<config, rhoArg, netVars, updaterVars, replayMethod, state, action,
                 totalSteps, deterministic, episodeVars, softUpdateCalls,
                 stepMode>>

\* A critic's Backward over the batch: its parameter gradient.
CriticGradient(b, lossGrad) ==
  SumVec([i \in DOMAIN b |-> QBackward(b[i].action, b[i].state, lossGrad[i])],
         Len(b))

\* A learning critic whose target shares its parameter storage.
UpdateParametersTargetAlias(p, n, stepSize, buf) ==
  LET new == UpdaterApply(p[n], stepSize, buf)
  IN [m \in DOMAIN p |->
        IF m = n \/ (n = "learningQ1Network" /\ m = "targetQ1Network")
                \/ (n = "learningQ2Network" /\ m = "targetQ2Network")
        THEN new ELSE p[m]]

\* Two learning critics that share their parameter storage.
UpdateParametersSharedCritics(p, n, stepSize, buf) ==
  LET new == UpdaterApply(p[n], stepSize, buf)
      critics == {"learningQ1Network", "learningQ2Network"}
  IN [m \in DOMAIN p |->
        IF m = n \/ (n \in critics /\ m \in critics) THEN new ELSE p[m]]

\* updater->Update(n.Parameters(), stepSize, gradient) writes the parameter
\* block of network n in place and no other block.
UpdateParameters(p, n, stepSize, buf) ==
  [p EXCEPT ![n] = UpdaterApply(p[n], stepSize, buf)]

\* learningQ1Network.Backward(...); qNetworkUpdatePolicy->Update(...).
Critic1Step ==
  /\ pc = "critic1"
  /\ LET buf == UpdaterStep(qNetworkUpdatePolicy,
                            CriticGradient(batch, gradQ1Loss))
     IN /\ qNetworkUpdatePolicy' = buf
        /\ parameters' = UpdateParameters(parameters, "learningQ1Network",
                                          config.StepSize, buf)
  /\ qUpdaterWriter' = "learningQ1Network"
  /\ pc' = NextInUpdate(pc)
  /\ UNCHANGED <<config, rhoArg, policyNetworkUpdatePolicy, replayMethod, state,
                 action, totalSteps, deterministic, episodeVars, updateVars,
                 logVars>>

\* learningQ2Network.Backward(...); qNetworkUpdatePolicy->Update(...).
Critic2Step ==
  /\ pc = "critic2"
  /\ LET buf == UpdaterStep(qNetworkUpdatePolicy,
                            CriticGradient(batch, gradQ2Loss))
     IN /\ qNetworkUpdatePolicy' = buf
        /\ parameters' = UpdateParameters(parameters, "learningQ2Network",
                                          config.StepSize, buf)
  /\ qUpdaterWriter' = "learningQ2Network"
  /\ pc' = NextInUpdate(pc)
  /\ UNCHANGED <<config, rhoArg, policyNetworkUpdatePolicy, replayMethod, state,
                 action, totalSteps, deterministic, episodeVars, updateVars,
                 logVars>>

\* The critic with the higher value.
ChosenCriticHigher(p, s) ==
  LET pi == PolicyPredict(p["policyNetwork"], s)
  IN IF QPredict(p["learningQ1Network"], pi, s)
          > QPredict(p["learningQ2Network"], pi, s)
     THEN "learningQ1Network" ELSE "learningQ2Network"

\* The critic the actor step differentiates for one sampled state:
\* critic 1 if Q1(i) < Q2(i), else critic 2.
ChosenCritic(p, s) ==
  LET pi == PolicyPredict(p["policyNetwork"], s)
  IN IF QPredict(p["learningQ1Network"], pi, s)
          < QPredict(p["learningQ2Network"], pi, s)
     THEN "learningQ1Network" ELSE "learningQ2Network"

\* The state rows of gradQ instead of the action rows.
GradPolicyStateBlock(p, s) ==
  LET pi == PolicyPredict(p["policyNetwork"], s)
      q == QPredict(p[ChosenCritic(p, s)], pi, s)
  IN QBackward(pi, s, -q)[2]

\* gradQ.rows(0, singlePi.n_rows - 1) of the chosen critic's Backward on -q.
GradPolicy(p, s) ==
  LET pi == PolicyPredict(p["policyNetwork"], s)
      q == QPredict(p[ChosenCritic(p, s)], pi, s)
  IN QBackward(pi, s, -q)[1]

\* The gradient divided by the batch size (gradient /= sampledStates.n_cols).
PolicyGradientMean(p, b) ==
  LET sum == SumVec([i \in DOMAIN b |->
                       PolicyBackward(b[i].state, GradPolicy(p, b[i].state))],
                    Len(b))
  IN [k \in DOMAIN sum |-> sum[k] \div Len(b)]

\* The accumulated policy gradient of the batch.
PolicyGradient(p, b) ==
  SumVec([i \in DOMAIN b |->
            PolicyBackward(b[i].state, GradPolicy(p, b[i].state))], Len(b))

\* The actor update: policyNetworkUpdatePolicy->Update(...).
ActorStep ==
  /\ pc = "actor"
  /\ LET buf == UpdaterStep(policyNetworkUpdatePolicy,
                            PolicyGradient(parameters, batch))
     IN /\ policyNetworkUpdatePolicy' = buf
        /\ parameters' = UpdateParameters(parameters, "policyNetwork",
                                          config.StepSize, buf)
  /\ pc' = NextInUpdate(pc)
  /\ UNCHANGED <<config, rhoArg, qNetworkUpdatePolicy, qUpdaterWriter, replayMethod,
                 state, action, totalSteps, deterministic, episodeVars,
                 updateVars, logVars>>

\* The two weights exchanged.
SoftMixSwapped(t, l, rho) == VecAdd(VecScale(rho, t), VecScale(SCALE - rho, l))

\* (1 - rho) * target + rho * learning
SoftMix(t, l, rho) == VecAdd(VecScale(SCALE - rho, t), VecScale(rho, l))

\* SoftUpdate(rho)
SoftUpdate(p, rho) ==
  [p EXCEPT
     !["targetQ1Network"] =
        SoftMix(p["targetQ1Network"], p["learningQ1Network"], rho),
     !["targetQ2Network"] =
        SoftMix(p["targetQ2Network"], p["learningQ2Network"], rho)]

\* A synchronisation at the end of every Update().
SyncDueAlways(t, interval) == TRUE

\* totalSteps % config.TargetNetworkSyncInterval() == 0
SyncDue(t, interval) == t % interval = 0

\* The end of Update(): the target networks are synchronised when due.
TargetSync ==
  /\ pc = "sync"
  /\ IF SyncDue(totalSteps, config.TargetNetworkSyncInterval)
     THEN /\ rhoArg' = RHO
          /\ parameters' = SoftUpdate(parameters, RHO)
          /\ softUpdateCalls' = [softUpdateCalls EXCEPT ![totalSteps] = @ + 1]
     ELSE UNCHANGED <<rhoArg, parameters, softUpdateCalls>>
  /\ batch' = <<>>
  /\ nextQ' = <<>>
  /\ gradQ1Loss' = <<>>
  /\ gradQ2Loss' = <<>>
  /\ pc' = NextInUpdate(pc)
  /\ UNCHANGED <<config, updaterVars, replayMethod, state, action, totalSteps,
                 deterministic, episodeVars, updateCalls, stepMode>>

Next ==
  \/ SetDeterministic
  \/ EpisodeBegin
  \/ EpisodeReturn
  \/ SelectAction
  \/ EnvSample
  \/ Store
  \/ Advance
  \/ UpdateSample
  \/ Critic1Step
  \/ Critic2Step
  \/ ActorStep
  \/ TargetSync

Spec == Init /\ [][Next]_vars

\* The statements of Episode() and of the Update() it calls: once Episode()
\* has been called, the calling thread runs them one after the other.
EpisodeStep ==
  \/ EpisodeReturn
  \/ SelectAction
  \/ EnvSample
  \/ Store
  \/ Advance
  \/ UpdateSample
  \/ Critic1Step
  \/ Critic2Step
  \/ ActorStep
  \/ TargetSync

\* The program with a running Episode() call always making progress; the
\* calls themselves (Episode(), Deterministic()) may or may not happen.
FairSpec == Spec /\ WF_vars(EpisodeStep)

TypeOK ==
  /\ config \in Configs
  /\ pc \in {"idle", "loop", "sample", "store", "advance", "update",
             "critic1", "critic2", "actor", "sync"}
  /\ totalSteps \in 0..MaxTotalSteps
  /\ Len(replayMethod) \in 0..MaxTotalSteps
  /\ deterministic \in BOOLEAN
  /\ state \in States

\* ================================================================= claims
\* Lifetime step t has run to the end of its loop iteration.
StepDone(t) == t < totalSteps \/ pc \in {"loop", "idle"}

Target(p) == <<p["targetQ1Network"], p["targetQ2Network"]>>

\* C1: with deterministic = false, no Update() runs at a lifetime step below
\* explorationSteps, and every finished step at or above it ran Update()
\* exactly once, never more.
C1_ExplorationGating ==
  \A t \in 1..totalSteps :
    /\ updateCalls[t] <= 1
    /\ t < config.ExplorationSteps => updateCalls[t] = 0
    /\ (StepDone(t) /\ ~stepMode[t] /\ t >= config.ExplorationSteps)
         => updateCalls[t] = 1

\* An episode that skipped learning at step 1, learned at step 2 and ended
\* there on a terminal state.
C1_Witness ==
  /\ pc = "idle"
  /\ config.ExplorationSteps = 2
  /\ totalSteps = 2
  /\ stepMode = <<FALSE, FALSE>>
  /\ updateCalls = <<0, 1>>
  /\ IsTerminal(state)

\* C2: a step taken in deterministic mode runs neither Update() nor
\* SoftUpdate(), and no step of the agent changes a parameter block while
\* deterministic is set.
C2_DeterministicNoLearning ==
  /\ [](\A t \in 1..totalSteps :
          stepMode[t] => (updateCalls[t] = 0 /\ softUpdateCalls[t] = 0))
  /\ [][deterministic =>
          /\ parameters' = parameters
          /\ pc' \notin {"update", "critic1", "critic2", "actor", "sync"}]_vars

\* A deterministic step past the exploration threshold, on a multiple of the
\* sync interval, after an earlier step that did learn.
C2_Witness ==
  /\ pc = "loop"
  /\ deterministic
  /\ totalSteps = 2
  /\ stepMode = <<FALSE, TRUE>>
  /\ updateCalls = <<1, 0>>
  /\ totalSteps >= config.ExplorationSteps
  /\ totalSteps % config.TargetNetworkSyncInterval = 0

\* C3: the target parameter blocks change only in the synchronisation at the
\* end of an Update() whose totalSteps is a multiple of the sync interval;
\* the sampling, both critic steps and the policy step leave them as they
\* were.
C3_TargetIsolation ==
  [][Target(parameters') # Target(parameters) =>
       /\ pc = "sync"
       /\ totalSteps % config.TargetNetworkSyncInterval = 0]_vars

\* A finished Update() off the sync boundary: both learning critics moved,
\* both targets still hold their values.
C3_Witness ==
  /\ pc = "loop"
  /\ totalSteps = 1
  /\ updateCalls = <<1>>
  /\ config.TargetNetworkSyncInterval = 2
  /\ parameters["learningQ1Network"] # parameters["targetQ1Network"]
  /\ parameters["learningQ2Network"] # parameters["targetQ2Network"]
  /\ parameters["targetQ1Network"] \in InitQ1
  /\ parameters["targetQ2Network"] \in ResetQ2

\* C4: the updater state that the step on critic 1 reads and writes was never
\* written by a step on critic 2, and the state that the step on critic 2
\* reads and writes was never written by a step on critic 1.
C4_IndependentCriticUpdaters ==
  /\ pc = "critic1" => qUpdaterWriter \in {"none", "learningQ1Network"}
  /\ pc = "critic2" => qUpdaterWriter \in {"none", "learningQ2Network"}

\* C5: right after the batch is sampled, every entry of nextQ is the reward
\* alone for a terminal sample and otherwise the reward plus the discounted
\* lesser of the two target critics' values on (policy prediction for the
\* next state, next state); both loss gradients are taken against this nextQ.
C5_ClippedDoubleQ ==
  pc = "critic1" =>
    /\ \A i \in 1..Len(batch) :
         LET b == batch[i]
             a1 == Mul(parameters["policyNetwork"][1], Encode(b.nextState))
                     + parameters["policyNetwork"][2]
             t1 == Mul(parameters["targetQ1Network"][1], a1)
                     + Mul(parameters["targetQ1Network"][2], Encode(b.nextState))
             t2 == Mul(parameters["targetQ2Network"][1], a1)
                     + Mul(parameters["targetQ2Network"][2], Encode(b.nextState))
             lesser == IF t1 <= t2 THEN t1 ELSE t2
         IN IF b.isTerminal
            THEN nextQ[i] = b.reward
            ELSE nextQ[i] = b.reward + Mul(config.Discount, lesser)
    /\ \A i \in 1..Len(batch) :
         /\ gradQ1Loss[i] * Len(batch) <=
              2 * (QPredict(parameters["learningQ1Network"], batch[i].action,
                            batch[i].state) - nextQ[i])
         /\ gradQ1Loss[i] * Len(batch) + Len(batch) >
              2 * (QPredict(parameters["learningQ1Network"], batch[i].action,
                            batch[i].state) - nextQ[i])
         /\ gradQ2Loss[i] * Len(batch) <=
              2 * (QPredict(parameters["learningQ2Network"], batch[i].action,
                            batch[i].state) - nextQ[i])
         /\ gradQ2Loss[i] * Len(batch) + Len(batch) >
              2 * (QPredict(parameters["learningQ2Network"], batch[i].action,
                            batch[i].state) - nextQ[i])

\* A batch with a terminal sample and a non-terminal sample on which the two
\* target critics disagree, while learning and target critics differ.
C5_Witness ==
  /\ pc = "critic1"
  /\ batch[1].isTerminal
  /\ ~batch[2].isTerminal
  /\ nextQ[1] = batch[1].reward
  /\ nextQ[2] # batch[2].reward
  /\ LET a1 == PolicyPredict(parameters["policyNetwork"], batch[2].nextState)
     IN QPredict(parameters["targetQ1Network"], a1, batch[2].nextState)
          # QPredict(parameters["targetQ2Network"], a1, batch[2].nextState)
  /\ parameters["learningQ1Network"] # parameters["targetQ1Network"]

\* C6: every environment step is stored exactly once, as (state before the
\* step, action given to the environment, reward, next state, terminal flag
\* of the next state, configured discount), and the current state is replaced
\* only after the Store.
C6_OneFaithfulStore ==
  /\ Len(replayMethod) = (IF pc = "store" THEN totalSteps - 1 ELSE totalSteps)
  /\ \A k \in 1..Len(replayMethod) :
       LET tr == replayMethod[k]
       IN /\ ~IsTerminal(tr.state)
          /\ tr.reward = Reward(tr.state, tr.action, tr.nextState)
          /\ tr.isTerminal = (tr.nextState = TerminalState)
          /\ tr.discount = config.Discount
  /\ pc = "advance" =>
       LET tr == replayMethod[Len(replayMethod)]
       IN /\ tr.state = state
          /\ tr.action = action
          /\ tr.reward = reward
          /\ tr.nextState = nextState
  /\ (pc \in {"loop", "update", "critic1", "critic2", "actor", "sync"}
        /\ steps > 0)
       => /\ state = replayMethod[Len(replayMethod)].nextState
          /\ state = nextState
  /\ LET n == IF pc = "store" THEN steps - 1 ELSE steps
     IN \A k \in 2..n :
          replayMethod[Len(replayMethod) - n + k].state
            = replayMethod[Len(replayMethod) - n + k - 1].nextState

\* Two stored steps, one taken while learning and one in deterministic mode,
\* the second just stored and the current state not yet replaced by a
\* different next state.
C6_Witness ==
  /\ pc = "advance"
  /\ totalSteps = 2
  /\ stepMode = <<FALSE, TRUE>>
  /\ updateCalls = <<1, 0>>
  /\ replayMethod[2].state = state
  /\ nextState # state

\* The rewards of the steps of the current (or last) episode.
EpisodeRewards ==
  [k \in 1..steps |-> replayMethod[Len(replayMethod) - steps + k].reward]

\* C7: Episode() returns the sum of the rewards of the steps it performed; it
\* returns only on a terminal state or with steps equal to the non-zero step
\* limit, never performs more steps than the limit and never steps from a
\* terminal state; with a terminal initial state it performs no step, stores
\* and updates nothing, leaves totalSteps alone and returns 0.
C7_EpisodeStepsAndReturn ==
  /\ [](/\ (config.StepLimit # 0 => steps <= config.StepLimit)
        /\ (pc # "store" =>
              /\ steps <= Len(replayMethod)
              /\ totalReturn = SumSeq(EpisodeRewards, steps)
              /\ \A k \in 1..steps :
                   LET tr == replayMethod[Len(replayMethod) - steps + k]
                   IN /\ ~IsTerminal(tr.state)
                      /\ k < steps => ~IsTerminal(tr.nextState)))
  /\ [][(pc = "loop" /\ pc' = "idle") =>
          /\ retval' = SumSeq(EpisodeRewards, steps)
          /\ (IsTerminal(state)
                \/ (config.StepLimit # 0 /\ steps = config.StepLimit))
          /\ UNCHANGED <<totalSteps, replayMethod, updateCalls, parameters>>
          /\ steps = 0 => retval' = 0]_vars
  /\ [][(pc = "loop" /\ ~IsTerminal(state)
           /\ (config.StepLimit = 0 \/ steps < config.StepLimit))
          => pc' # "idle"]_vars
  /\ [][(pc = "idle" /\ pc' = "loop") =>
          /\ steps' = 0
          /\ UNCHANGED <<totalSteps, replayMethod, updateCalls, parameters>>]_vars

\* An episode with step limit 2 that never met a terminal state has returned
\* after exactly 2 steps with the sum of their two rewards.
C7_Witness ==
  /\ pc = "idle"
  /\ config.StepLimit = 2
  /\ steps = 2
  /\ totalSteps = 2
  /\ ~IsTerminal(state)
  /\ retval = replayMethod[1].reward + replayMethod[2].reward
  /\ retval # 0

\* C8: when the Update() of lifetime step t begins, at least t transitions
\* were stored and the newest is the transition of step t; every sampled
\* transition is one that is in the store.
C8_StoreBeforeSample ==
  /\ pc = "update" =>
       /\ Len(replayMethod) >= totalSteps
       /\ replayMethod[totalSteps].nextState = state
       /\ replayMethod[totalSteps].action = action
       /\ replayMethod[totalSteps].reward = reward
  /\ pc \in {"critic1", "critic2", "actor", "sync"} =>
       /\ Len(batch) = BatchSize
       /\ \A i \in 1..Len(batch) :
            \E k \in 1..Len(replayMethod) : batch[i] = replayMethod[k]

\* The first Update() of a run at step 1: its batch can only hold the
\* transition that step 1 has just stored.
C8_Witness ==
  /\ pc = "critic1"
  /\ totalSteps = 1
  /\ Len(replayMethod) = 1
  /\ batch[1] = replayMethod[1]
  /\ batch[2] = replayMethod[1]

\* C9: SoftUpdate runs only in the synchronisation at the end of Update(),
\* with rho = 0.005, at most once per step; a finished step t ran it exactly
\* when it ran Update() and t is a multiple of the sync interval, so a
\* multiple passed without an Update() is never made up.
C9_TargetSyncTrigger ==
  /\ [](\A t \in 1..totalSteps :
          /\ softUpdateCalls[t] <= updateCalls[t]
          /\ softUpdateCalls[t] <= 1
          /\ StepDone(t) =>
               (softUpdateCalls[t] = 1
                  <=> (updateCalls[t] = 1
                         /\ t % config.TargetNetworkSyncInterval = 0)))
  /\ [][SumSeq(softUpdateCalls', Len(softUpdateCalls'))
            # SumSeq(softUpdateCalls, Len(softUpdateCalls)) =>
          /\ pc = "sync"
          /\ softUpdateCalls' =
               [softUpdateCalls EXCEPT ![totalSteps] = @ + 1]
          /\ \A n \in {1, 2} :
               Target(parameters')[n] =
                 [i \in 1..2 |->
                    (995 * Target(parameters)[n][i]) \div 1000
                      + (5 * (IF n = 1 THEN parameters["learningQ1Network"][i]
                                       ELSE parameters["learningQ2Network"][i]))
                          \div 1000]]_vars

\* Interval 1 and two exploration steps: step 1 is a multiple of the interval
\* in warm-up and ran no SoftUpdate; step 2 ran exactly one.
C9_Witness ==
  /\ pc = "loop"
  /\ config.TargetNetworkSyncInterval = 1
  /\ config.ExplorationSteps = 2
  /\ totalSteps = 2
  /\ updateCalls = <<0, 1>>
  /\ softUpdateCalls = <<0, 1>>
  /\ Target(parameters) # <<parameters["learningQ1Network"],
                            parameters["learningQ2Network"]>>

\* C10: the gradient step on critic 1 changes no parameter block but critic
\* 1's, the step on critic 2 none but critic 2's, and the policy step none
\* but the policy's.
C10_CriticParameterIndependence ==
  [][/\ pc = "critic1" =>
          \A n \in Networks \ {"learningQ1Network"} :
            parameters'[n] = parameters[n]
     /\ pc = "critic2" =>
          \A n \in Networks \ {"learningQ2Network"} :
            parameters'[n] = parameters[n]
     /\ pc = "actor" =>
          \A n \in Networks \ {"policyNetwork"} :
            parameters'[n] = parameters[n]]_vars

\* Both critic steps of an Update() are done: each learning critic has left
\* its initial value, which its target still holds, and the two differ.
C10_Witness ==
  /\ pc = "actor"
  /\ updateCalls[totalSteps] = 1
  /\ parameters["learningQ1Network"] # parameters["targetQ1Network"]
  /\ parameters["learningQ2Network"] # parameters["targetQ2Network"]
  /\ parameters["learningQ1Network"] # parameters["learningQ2Network"]
  /\ Len(SelectSeq(softUpdateCalls, LAMBDA c : c > 0)) = 0

\* ------------------------------------------------- SoftUpdate(rho) alone
\* SoftUpdate is a public method: a caller may apply it with any rho to any
\* critic parameters.  The values tried for one row of a critic block, and
\* for rho (0, 0.005, 0.5 and 1).
ScalarValues == {0, SCALE, 2 * SCALE}
RhoValues == {0, RHO, SCALE \div 2, SCALE}

\* The agent with given critic parameters, about to run SoftUpdate(r).
InitSoftUpdate ==
  /\ config \in {c \in Configs : c.StepLimit = 0 /\ c.ExplorationSteps = 0
                                   /\ c.TargetNetworkSyncInterval = 1}
  /\ rhoArg \in RhoValues
  /\ \E l1, l2, t1, t2 \in ScalarValues, p \in InitPolicy :
       parameters =
         [n \in Networks |->
            CASE n = "learningQ1Network" -> <<l1, l2>>
              [] n = "learningQ2Network" -> <<l2, l1>>
              [] n = "targetQ1Network" -> <<t1, t2>>
              [] n = "targetQ2Network" -> <<t2, t2>>
              [] n = "policyNetwork" -> p]
  /\ qNetworkUpdatePolicy = Zero2
  /\ policyNetworkUpdatePolicy = Zero2
  /\ replayMethod = <<>>
  /\ state = 0
  /\ action = 0
  /\ totalSteps = 0
  /\ deterministic = FALSE
  /\ pc = "softupdate"
  /\ steps = 0
  /\ totalReturn = 0
  /\ nextState = 0
  /\ reward = 0
  /\ retval = 0
  /\ batch = <<>>
  /\ nextQ = <<>>
  /\ gradQ1Loss = <<>>
  /\ gradQ2Loss = <<>>
  /\ qUpdaterWriter = "none"
  /\ updateCalls = <<>>
  /\ softUpdateCalls = <<>>
  /\ stepMode = <<>>

\* SoftUpdate(rhoArg)
SoftUpdateCall ==
  /\ pc = "softupdate"
  /\ parameters' = SoftUpdate(parameters, rhoArg)
  /\ pc' = "softdone"
  /\ UNCHANGED <<config, rhoArg, updaterVars, replayMethod, state, action,
                 totalSteps, deterministic, episodeVars, updateVars, logVars>>

NextSoftUpdate == SoftUpdateCall

SpecSoftUpdate == InitSoftUpdate /\ [][NextSoftUpdate]_vars

\* C11: SoftUpdate(rho) sets each row of target 1 to (1 - rho) * target 1 +
\* rho * learning 1 and each row of target 2 to (1 - rho) * target 2 + rho *
\* learning 2, and leaves both learning critics and the policy as they were;
\* rho = 0.005 takes target 1.0 with learning 2.0 to 1.005, rho = 0 keeps the
\* target and rho = 1 makes it the learning critic.
C11_SoftUpdateRule ==
  [][pc = "softupdate" =>
       /\ \A i \in 1..2 :
            /\ parameters'["targetQ1Network"][i] =
                 ((SCALE - rhoArg) * parameters["targetQ1Network"][i]) \div SCALE
                   + (rhoArg * parameters["learningQ1Network"][i]) \div SCALE
            /\ parameters'["targetQ2Network"][i] =
                 ((SCALE - rhoArg) * parameters["targetQ2Network"][i]) \div SCALE
                   + (rhoArg * parameters["learningQ2Network"][i]) \div SCALE
            /\ (rhoArg = 5 /\ parameters["targetQ1Network"][i] = 1000
                  /\ parameters["learningQ1Network"][i] = 2000)
                 => parameters'["targetQ1Network"][i] = 1005
       /\ rhoArg = 0 => Target(parameters') = Target(parameters)
       /\ rhoArg = SCALE =>
            Target(parameters') = <<parameters["learningQ1Network"],
                                    parameters["learningQ2Network"]>>
       /\ \A n \in {"learningQ1Network", "learningQ2Network", "policyNetwork"} :
            parameters'[n] = parameters[n]]_vars

\* SoftUpdate(0.005) has taken a row of target 1 from 1.0 to 1.005 against a
\* learning value of 2.0, while target 2 moved by its own critic's values.
C11_Witness ==
  /\ pc = "softdone"
  /\ rhoArg = 5
  /\ parameters["learningQ1Network"] = <<2000, 0>>
  /\ parameters["targetQ1Network"][1] = 1005
  /\ parameters["learningQ2Network"] = <<0, 2000>>
  /\ parameters["targetQ2Network"] = <<0, 10>>

\* C12: in deterministic mode SelectAction() sets the action to the policy's
\* prediction w * Encode(state) + b, so deterministic steps from equal states
\* with no Update() in between chose equal actions; in either mode it leaves
\* the current state, totalSteps and every parameter block as they were.
C12_DeterministicSelectAction ==
  /\ [][(pc = "loop" /\ pc' = "sample") =>
          /\ deterministic =>
               action' = (parameters["policyNetwork"][1] * (state * SCALE))
                            \div SCALE + parameters["policyNetwork"][2]
          /\ UNCHANGED <<state, totalSteps, parameters>>]_vars
  /\ [](\A j, k \in 1..Len(replayMethod) :
          (/\ j < k
           /\ stepMode[j] /\ stepMode[k]
           /\ replayMethod[j].state = replayMethod[k].state
           /\ \A t \in j..k : updateCalls[t] = 0)
            => replayMethod[j].action = replayMethod[k].action)

\* Two deterministic steps from the same state chose the same action.
C12_Witness ==
  /\ Len(replayMethod) = 2
  /\ stepMode = <<TRUE, TRUE>>
  /\ replayMethod[1].state = replayMethod[2].state
  /\ replayMethod[1].action = replayMethod[2].action
  /\ replayMethod[1].action = PolicyPredict(parameters["policyNetwork"],
                                            replayMethod[1].state)

\* C13: totalSteps starts at 0, grows by exactly 1 with each environment step
\* and is changed by nothing else, so it always equals the number of
\* environment steps taken over all episodes, deterministic ones included.
C13_LifetimeStepCounter ==
  /\ totalSteps = 0
  /\ [][totalSteps' = (IF pc = "sample" THEN totalSteps + 1 ELSE totalSteps)]_vars
  /\ [](totalSteps = Len(stepMode))

\* A second episode has returned after one step: the counter holds the steps
\* of both episodes, the first of them a deterministic one.
C13_Witness ==
  /\ pc = "idle"
  /\ totalSteps = 2
  /\ steps = 1
  /\ stepMode = <<TRUE, FALSE>>
  /\ updateCalls = <<0, 1>>

\* C14: outside deterministic mode the action is the policy output plus a
\* noise term that is an unaltered draw of U(0, 0.1): it lies in [0, 0.1],
\* hence inside the clamp band [-0.25, 0.25], and is never negative.
C14_ExplorationNoiseBound ==
  [][(pc = "loop" /\ pc' = "sample" /\ ~deterministic) =>
       LET noise == action' - PolicyPredict(parameters["policyNetwork"], state)
       IN /\ noise \in NoiseDraws
          /\ 0 <= noise /\ noise <= 100
          /\ -250 <= noise /\ noise <= 250]_vars

\* A noisy action above the clamp band: the largest draw was added to a policy
\* output of 0.75 and the sum was not clamped.
C14_Witness ==
  /\ pc = "sample"
  /\ ~deterministic
  /\ action - PolicyPredict(parameters["policyNetwork"], state) = 100
  /\ action > 250

\* The gradient the actor step hands to the policy's updater: what the step
\* adds to the updater's buffer beyond the decayed old buffer.
ActorGradient(buf, newBuf) ==
  [k \in 1..2 |-> newBuf[k] - (Momentum * buf[k]) \div SCALE]

\* C15: in the actor step each sample contributes the gradient through one
\* learning critic only, the one whose value on (policy prediction, state) is
\* lower with the parameters the critics have after this Update()'s critic
\* steps: critic 1 if Q1 < Q2, critic 2 otherwise.
C15_ConservativeCritic ==
  [][pc = "actor" =>
       LET pol == parameters["policyNetwork"]
           contribution(i) ==
             LET s == batch[i].state
                 pi == PolicyPredict(pol, s)
                 q1 == QPredict(parameters["learningQ1Network"], pi, s)
                 q2 == QPredict(parameters["learningQ2Network"], pi, s)
                 low == IF q1 < q2 THEN q1 ELSE q2
             IN PolicyBackward(s, QBackward(pi, s, -low)[1])
       IN ActorGradient(policyNetworkUpdatePolicy, policyNetworkUpdatePolicy')
            = [k \in 1..2 |->
                 SumSeq([i \in 1..Len(batch) |-> contribution(i)[k]],
                        Len(batch))]]_vars

\* An actor step is due on a batch with one sample where critic 1 is the lower
\* critic and one where critic 2 is, the two values differing in both, after
\* the critic steps of this Update() moved both learning critics away from
\* their targets.
C15_Witness ==
  /\ pc = "actor"
  /\ parameters["learningQ1Network"] # parameters["targetQ1Network"]
  /\ parameters["learningQ2Network"] # parameters["targetQ2Network"]
  /\ LET low(i) == ChosenCritic(parameters, batch[i].state)
         q(n, i) == QPredict(parameters[n],
                      PolicyPredict(parameters["policyNetwork"], batch[i].state),
                      batch[i].state)
     IN /\ low(1) # low(2)
        /\ q("learningQ1Network", 1) # q("learningQ2Network", 1)
        /\ q("learningQ1Network", 2) # q("learningQ2Network", 2)

\* A critic with weights w evaluated on an input whose first row is the
\* action and whose second row is the state.
ActionFirst(w, a, s) == Mul(w[1], a) + Mul(w[2], Encode(s))

C17_SingleSummedPolicyStep ==
  [][/\ pc = "actor" =>
          LET pol == parameters["policyNetwork"]
              perSample(i) ==
                PolicyBackward(batch[i].state,
                               GradPolicy(parameters, batch[i].state))
              sum == [k \in 1..2 |->
                        SumSeq([i \in 1..Len(batch) |-> perSample(i)[k]],
                               Len(batch))]
              buf == [k \in 1..2 |->
                        (Momentum * policyNetworkUpdatePolicy[k]) \div SCALE
                          + sum[k]]
          IN /\ policyNetworkUpdatePolicy' = buf
             /\ parameters'["policyNetwork"] =
                  [k \in 1..2 |-> pol[k] - Mul(config.StepSize, buf[k])]
             /\ pc' = "sync"
     /\ pc \in {"update", "critic1", "critic2", "sync"} =>
          /\ parameters'["policyNetwork"] = parameters["policyNetwork"]
          /\ policyNetworkUpdatePolicy' = policyNetworkUpdatePolicy]_vars

\* The policy step of an Update() has been applied on a batch of two different
\* states whose per-sample gradients are not zero and in which the sum and
\* the mean of a gradient row differ.
C17_Witness ==
  /\ pc = "sync"
  /\ batch[1].state # batch[2].state
  /\ \E k \in 1..2 :
       /\ policyNetworkUpdatePolicy[k] # 0
       /\ policyNetworkUpdatePolicy[k] \div Len(batch)
            # policyNetworkUpdatePolicy[k]
  /\ \A t \in 1..totalSteps : updateCalls[t] <= 1
  /\ SumSeq(updateCalls, totalSteps) = 1

\* C18: with a step limit L > 0, Episode() runs at most L loop iterations and
\* returns, whatever the environment yields; with L = 0 it returns exactly
\* when the state the loop tests is terminal. Nothing but the terminal test
\* and the step limit ends the loop, and every iteration, with or without
\* Update(), replaces the state and comes back to the loop test.
C18_EpisodeTermination ==
  /\ [](config.StepLimit # 0 => steps <= config.StepLimit)
  /\ [][/\ (pc = "loop" /\ pc' = "idle") =>
            \/ IsTerminal(state)
            \/ (config.StepLimit # 0 /\ steps >= config.StepLimit)
        /\ (pc = "loop" /\ pc' # "idle") =>
            /\ ~IsTerminal(state)
            /\ config.StepLimit = 0 \/ steps < config.StepLimit
        /\ (pc \notin {"loop", "idle"}) => pc' # "idle"
        /\ pc = "advance" =>
            (state' = nextState /\ pc' \in {"loop", "update"})
        /\ pc = "sync" => (pc' = "loop" /\ state' = state)]_vars
  /\ (/\ pc = "loop"
      /\ \/ IsTerminal(state)
         \/ /\ config.StepLimit # 0
            /\ totalSteps + (config.StepLimit - steps) <= MaxTotalSteps)
       ~> (pc = "idle")

\* Episode() has returned at the step limit from a state that is not
\* terminal, after an iteration that skipped Update() and one that ran it.
C18_Witness ==
  /\ pc = "idle"
  /\ config.StepLimit # 0
  /\ steps = config.StepLimit
  /\ ~IsTerminal(state)
  /\ \E t \in 1..totalSteps : updateCalls[t] = 0
  /\ \E t \in 1..totalSteps : updateCalls[t] > 0

\* The parameter blocks other than block n are the same after the step.
OnlyBlockChanges(n) ==
  \A m \in DOMAIN parameters : m # n => parameters'[m] = parameters[m]

\* C19: inside one Update() the replay store is sampled once, before any
\* parameter changes; the bootstrapped target is computed from the target
\* critics and the policy as they are when Update() starts; then come critic
\* 1's step, critic 2's step and the policy's step, each changing its own
\* parameters only and none changing the batch or the target values; last,
\* and only when due, SoftUpdate mixes the learning critics as the steps left
\* them into the targets.
C19_UpdateOrder ==
  [][/\ batch' # batch => pc \in {"update", "sync"}
     /\ pc = "update" =>
          /\ pc' = "critic1"
          /\ batch' \in Batches(replayMethod)
          /\ nextQ' = NextQ(parameters, batch', config.Discount)
          /\ parameters' = parameters
          /\ UNCHANGED <<qNetworkUpdatePolicy, policyNetworkUpdatePolicy,
                         replayMethod>>
     /\ pc = "critic1" =>
          /\ pc' = "critic2"
          /\ OnlyBlockChanges("learningQ1Network")
          /\ UNCHANGED <<batch, nextQ, gradQ2Loss, replayMethod>>
     /\ pc = "critic2" =>
          /\ pc' = "actor"
          /\ OnlyBlockChanges("learningQ2Network")
          /\ UNCHANGED <<batch, nextQ, replayMethod>>
     /\ pc = "actor" =>
          /\ pc' = "sync"
          /\ OnlyBlockChanges("policyNetwork")
          /\ UNCHANGED <<batch, nextQ, replayMethod>>
     /\ pc = "sync" =>
          /\ pc' = "loop"
          /\ UNCHANGED <<replayMethod, qNetworkUpdatePolicy,
                         policyNetworkUpdatePolicy>>
          /\ \A n \in {"policyNetwork", "learningQ1Network",
                       "learningQ2Network"} : parameters'[n] = parameters[n]
          /\ IF totalSteps % config.TargetNetworkSyncInterval = 0
             THEN /\ parameters'["targetQ1Network"] =
                       SoftMix(parameters["targetQ1Network"],
                               parameters["learningQ1Network"], RHO)
                  /\ parameters'["targetQ2Network"] =
                       SoftMix(parameters["targetQ2Network"],
                               parameters["learningQ2Network"], RHO)
             ELSE parameters' = parameters]_vars

\* An Update() has reached a due synchronisation after optimizer steps that
\* moved both learning critics and the policy: the target values it used
\* differ from the ones the parameters of this moment would give, and the
\* synchronisation is going to change both targets.
C19_Witness ==
  /\ pc = "sync"
  /\ totalSteps % config.TargetNetworkSyncInterval = 0
  /\ parameters["learningQ1Network"] # parameters["targetQ1Network"]
  /\ parameters["learningQ2Network"] # parameters["targetQ2Network"]
  /\ policyNetworkUpdatePolicy # Zero2
  /\ nextQ # NextQ(parameters, batch, config.Discount)
  /\ SoftUpdate(parameters, RHO)["targetQ1Network"]
       # parameters["targetQ1Network"]
  /\ SoftUpdate(parameters, RHO)["targetQ2Network"]
       # parameters["targetQ2Network"]

\* No Update() has begun in the agent's lifetime.
NoUpdateYet == \A t \in 1..Len(updateCalls) : updateCalls[t] = 0

\* C20: after construction, and in every state reached before the first
\* Update(), target critic 1 has the parameters of learning critic 1 and
\* target critic 2 those of learning critic 2, which are the reset ones.
C20_TargetInitialisation ==
  NoUpdateYet =>
    /\ parameters["targetQ1Network"] = parameters["learningQ1Network"]
    /\ parameters["targetQ2Network"] = parameters["learningQ2Network"]
    /\ parameters["targetQ2Network"] \in ResetQ2
    /\ parameters["targetQ1Network"] \in InitQ1

\* Environment steps have been taken and stored, some in deterministic mode
\* and some during warm-up, an episode has returned, and no Update() has run;
\* the two critics differ, so their targets are told apart.
C20_Witness ==
  /\ NoUpdateYet
  /\ totalSteps = MaxTotalSteps
  /\ Len(replayMethod) = MaxTotalSteps
  /\ pc = "loop"
  /\ \E t \in 1..totalSteps : stepMode[t]
  /\ \E t \in 1..totalSteps : ~stepMode[t]
  /\ parameters["learningQ1Network"] # parameters["learningQ2Network"]

====
